---- MODULE Spec2Model ----
(***************************************************************************)
(* A model of the two client-side data hooks of service-nexus-noir:        *)
(*   useBookingsActionsV2 (src/unnamed/part_000): the four guarded status  *)
(*     transitions of a booking record held by the remote store;           *)
(*   useFavorites (src/src/hooks/useFavorites.tsx): the cached list of     *)
(*     favorite providers with its load / add / remove operations and the  *)
(*     push subscription.                                                  *)
(* Every `await` of the source is a point where other work may run, so     *)
(* each asynchronous function is cut into one action per segment between   *)
(* awaits.  The remote store serves each request atomically.               *)
(* The two hooks share no state but the user's id, which both only read:   *)
(* a behaviour is one of a view using useBookingsActionsV2 or one of a     *)
(* view using useFavorites (variable view), so that the reachable states   *)
(* are the union of the states of the two hooks.                           *)
(***************************************************************************)
EXTENDS Integers, Sequences, FiniteSets, Bags, TLC

----------------------------------------------------------------------------
(* Bounds of the model *)

\* number of mutation invocations that may be in flight at once
NumInv == 2
\* the clock (new Date()) takes the values 1..MaxClock
MaxClock == 2
\* number of favorites calls (load, add, remove) that may be in flight at once
MaxCalls == 2
\* number of change events that may wait for delivery on one channel
MaxEvents == 1

----------------------------------------------------------------------------
(* Values *)

Users == {"u1", "u2"}
\* useAuth() supplies no user
NoUser == "none"
\* the provider-user of the booking record (spec 8: provider_user_id "u1")
Provider == "u1"

\* a timestamp column holding null
NoTime == 0
\* a text column holding null
Null == "null"
\* the arguments a caller passes: notes for accept/start/complete, reason for cancel
NotesArgs == {"ok"}
ReasonArgs == {"busy"}

\* messages of the thrown errors
MsgNotAuthenticated == "User not authenticated"
MsgFetchFailed == "Failed to fetch booking details"
MsgRemote == "remote error"

AuthorizationMsg(kind) ==
    CASE kind = "accept"   -> "You are not authorized to accept this booking"
      [] kind = "start"    -> "You are not authorized to update this booking"
      [] kind = "complete" -> "You are not authorized to complete this booking"
      [] kind = "cancel"   -> "You are not authorized to cancel this booking"

InvalidTransitionMsg(kind) ==
    CASE kind = "accept"   -> "This booking cannot be accepted"
      [] kind = "start"    -> "This booking cannot be marked as in progress"
      [] kind = "complete" -> "This booking cannot be completed"
      [] kind = "cancel"   -> "This booking cannot be cancelled"

FallbackMsg(kind) ==
    CASE kind = "accept"   -> "Failed to accept booking. Please try again."
      [] kind = "start"    -> "Failed to update booking status. Please try again."
      [] kind = "complete" -> "Failed to complete booking. Please try again."
      [] kind = "cancel"   -> "Failed to cancel booking. Please try again."

SuccessDescription(kind) ==
    CASE kind = "accept"   -> "The booking has been accepted successfully."
      [] kind = "start"    -> "The booking has been marked as in progress."
      [] kind = "complete" -> "The booking has been marked as completed."
      [] kind = "cancel"   -> "The booking has been cancelled successfully."

SuccessTitle(kind) ==
    CASE kind = "accept"   -> "Booking Accepted"
      [] kind = "start"    -> "Booking Started"
      [] kind = "complete" -> "Booking Completed"
      [] kind = "cancel"   -> "Booking Cancelled"

\* the messages the remote store attaches to a failed update
RemoteErrors == {MsgRemote}

\* the query keys invalidated by every onSuccess
BookingListKeys == {"bookings", "provider-bookings"}

\* the providers a customer may favorite
Providers == {"p1"}
\* the order in which the store returns the rows of a select
ProviderOrder == <<"p1">>

----------------------------------------------------------------------------
VARIABLES
    view,       \* which hook the rendered view uses: "bookings" or "favorites"
    user,       \* useAuth().user?.id, or NoUser
    now,        \* the clock read by new Date()
    booking,    \* the booking row of the remote store
    inv,        \* the mutation invocations, one record per slot
    mounted,    \* the useFavorites component: "no" (rendered, effect not yet
                \* run), "yes", or "gone" (torn down)
    favorites,  \* useState<Favorite[]>: the local list
    loading,    \* useState(false): the loading flag
    remote,     \* the favorites table of the remote store
    channels,   \* the open push subscriptions, each named by its filter's user
    events,     \* per channel, the change events not yet delivered
    calls,      \* the favorites calls in flight
    returned    \* the favorites call that returned last

bookVars == <<now, booking, inv>>
favVars == <<mounted, favorites, loading, remote, channels, events, calls, returned>>
vars == <<view, user, bookVars, favVars>>

Inv == 1..NumInv

\* the update payload of an invocation that has not issued one
NoPatch == [f \in {} |-> Null]

IdleInv ==
    [pc |-> "idle", kind |-> "accept", caller |-> NoUser, arg |-> Null,
     snap |-> Null, patch |-> NoPatch, outcome |-> "none", message |-> "",
     toasts |-> <<>>, invalidated |-> {}]

----------------------------------------------------------------------------
(* The four transitions: precondition and update payload *)

\* mutant: accept forgets its status check for a booking already accepted
PreconditionAcceptTwice(kind, status) ==
    CASE kind = "accept"   -> status \in {"pending", "accepted"}
      [] kind = "start"    -> status = "accepted"
      [] kind = "complete" -> status = "in_progress"
      [] kind = "cancel"   -> status \notin {"cancelled", "completed"}

\* mutant: cancel refuses a cancelled booking only
PreconditionCancelCompleted(kind, status) ==
    CASE kind = "accept"   -> status = "pending"
      [] kind = "start"    -> status = "accepted"
      [] kind = "complete" -> status = "in_progress"
      [] kind = "cancel"   -> status # "cancelled"

\* mutant: complete tests for "not yet completed" instead of "in progress"
PreconditionCompleteEarly(kind, status) ==
    CASE kind = "accept"   -> status = "pending"
      [] kind = "start"    -> status = "accepted"
      [] kind = "complete" -> status \notin {"cancelled", "completed"}
      [] kind = "cancel"   -> status \notin {"cancelled", "completed"}

\* the status check of each mutationFn
Precondition(kind, status) ==
    CASE kind = "accept"   -> status = "pending"
      [] kind = "start"    -> status = "accepted"
      [] kind = "complete" -> status = "in_progress"
      [] kind = "cancel"   -> status \notin {"cancelled", "completed"}

\* mutant: start writes no started_at
PayloadStartNoTime(kind, arg, t) ==
    CASE kind = "accept"   ->
            [status |-> "accepted", provider_notes |-> arg, accepted_at |-> t]
      [] kind = "start"    ->
            [status |-> "in_progress", provider_notes |-> arg]
      [] kind = "complete" ->
            [status |-> "completed", provider_notes |-> arg, completed_at |-> t]
      [] kind = "cancel"   ->
            [status |-> "cancelled", cancellation_reason |-> arg, cancelled_at |-> t]

\* mutant: cancel writes its reason into provider_notes as well
PayloadCancelNotes(kind, arg, t) ==
    CASE kind = "accept"   ->
            [status |-> "accepted", provider_notes |-> arg, accepted_at |-> t]
      [] kind = "start"    ->
            [status |-> "in_progress", provider_notes |-> arg, started_at |-> t]
      [] kind = "complete" ->
            [status |-> "completed", provider_notes |-> arg, completed_at |-> t]
      [] kind = "cancel"   ->
            [status |-> "cancelled", provider_notes |-> arg,
             cancellation_reason |-> arg, cancelled_at |-> t]

\* the object passed to .update(): the columns it names and their new values
Payload(kind, arg, t) ==
    CASE kind = "accept"   ->
            [status |-> "accepted", provider_notes |-> arg, accepted_at |-> t]
      [] kind = "start"    ->
            [status |-> "in_progress", provider_notes |-> arg, started_at |-> t]
      [] kind = "complete" ->
            [status |-> "completed", provider_notes |-> arg, completed_at |-> t]
      [] kind = "cancel"   ->
            [status |-> "cancelled", cancellation_reason |-> arg, cancelled_at |-> t]

\* UPDATE bookings SET <patch> WHERE id = bookingId
ApplyUpdate(row, patch) ==
    [f \in DOMAIN row |-> IF f \in DOMAIN patch THEN patch[f] ELSE row[f]]

\* toast description of onError: error.message || fallback
ErrorDescription(kind, msg) == IF msg = "" THEN FallbackMsg(kind) ELSE msg

ErrorToast(kind, msg) ==
    [title |-> "Error", description |-> ErrorDescription(kind, msg),
     variant |-> "destructive"]

SuccessToast(kind) ==
    [title |-> SuccessTitle(kind), description |-> SuccessDescription(kind),
     variant |-> "default"]

\* mutant: onError invalidates the booking lists too
FailedInvalidates(r, msg) ==
    [r EXCEPT !.pc = "done", !.outcome = "error", !.message = msg,
              !.caller = NoUser, !.arg = Null,
              !.snap = Null, !.patch = NoPatch,
              !.invalidated = @ \cup BookingListKeys,
              !.toasts = Append(@, ErrorToast(r.kind, msg))]

\* the mutationFn threw msg: onError runs
Failed(r, msg) ==
    [r EXCEPT !.pc = "done", !.outcome = "error", !.message = msg,
              !.caller = NoUser, !.arg = Null,
              !.snap = Null, !.patch = NoPatch,
              !.toasts = Append(@, ErrorToast(r.kind, msg))]

\* the mutationFn returned: onSuccess runs
Succeeded(r) ==
    [r EXCEPT !.pc = "done", !.outcome = "success",
              !.caller = NoUser, !.arg = Null,
              !.snap = Null, !.patch = NoPatch,
              !.invalidated = @ \cup BookingListKeys,
              !.toasts = Append(@, SuccessToast(r.kind))]

----------------------------------------------------------------------------
(* Favorites: rows, the store's answers, the toasts *)

Row(c, p) == [customer_id |-> c, provider_user_id |-> p]

\* select * from favorites where customer_id = c
SelectFavorites(table, c) ==
    LET rows == [k \in DOMAIN ProviderOrder |-> Row(c, ProviderOrder[k])]
    IN  SelectSeq(rows, LAMBDA r : r \in table)

\* favorites.find / favorites.some (fav => fav.provider_user_id === p)
Contains(list, p) == \E k \in DOMAIN list : list[k].provider_user_id = p

\* prev.filter(fav => fav.provider_user_id !== p)
Without(list, p) == SelectSeq(list, LAMBDA r : r.provider_user_id # p)

isFavorite(p) == Contains(favorites, p)

FavToast(title, description, variant) ==
    [title |-> title, description |-> description, variant |-> variant]

ToastLoadError ==
    FavToast("Error", "Failed to load favorites. Please try again.", "destructive")
ToastLoadThrown ==
    FavToast("Error", "An unexpected error occurred while loading favorites.",
             "destructive")
ToastAuthRequired ==
    FavToast("Authentication Required", "Please log in to add favorites.",
             "destructive")
ToastAlready ==
    FavToast("Already in Favorites", "This provider is already in your favorites.",
             "destructive")
ToastAddError ==
    FavToast("Error", "Failed to add to favorites. Please try again.", "destructive")
ToastAdded ==
    FavToast("Added to Favorites", "Provider has been added to your favorites.",
             "default")
ToastRemoveError ==
    FavToast("Error", "Failed to remove from favorites. Please try again.",
             "destructive")
ToastRemoved ==
    FavToast("Removed from Favorites",
             "Provider has been removed from your favorites.", "default")

\* how the store answers a request: data, a returned error, or a rejected
\* promise; addToFavorites and removeFromFavorites treat the last two alike
Answers(op) == IF op = "load" THEN {"ok", "error", "throw"} ELSE {"ok", "error"}

\* a call in flight: pc is "request" until the store has served it, then
\* "response" until the awaiting function resumes
Call(op, uid, arg) ==
    [op |-> op, uid |-> uid, arg |-> arg, pc |-> "request", answer |-> "ok",
     data |-> <<>>]

\* what a finished call leaves: its return value and the toasts it emitted
Returned(op, value, toasts) ==
    [op |-> op, value |-> value, toasts |-> toasts]

\* the calls in flight are a bag: two loads of one user are two calls
Put(bag, r) == bag (+) SetToBag({r})
Take(bag, r) == bag (-) SetToBag({r})

\* a state setter of a component that was torn down does nothing
SetState(old, new) == IF mounted = "gone" THEN old ELSE new

----------------------------------------------------------------------------
Init ==
    /\ view \in {"bookings", "favorites"}
    /\ user \in Users \cup {NoUser}
    /\ now = 1
    /\ booking = [provider_user_id |-> Provider, status |-> "pending",
                  provider_notes |-> Null, cancellation_reason |-> Null,
                  accepted_at |-> NoTime, started_at |-> NoTime,
                  completed_at |-> NoTime, cancelled_at |-> NoTime]
    /\ inv = [i \in Inv |-> IdleInv]
    /\ mounted = "no"
    /\ favorites = <<>>
    /\ loading = FALSE
    /\ remote = {}
    /\ channels = {}
    /\ events = [c \in Users |-> 0]
    /\ calls = EmptyBag
    /\ returned = Returned("none", "void", <<>>)

\* time passes
Tick ==
    /\ view = "bookings"
    /\ now < MaxClock
    /\ now' = now + 1
    /\ UNCHANGED <<view, user, booking, inv, favVars>>

\* mutant: the mutationFn fetches without testing user?.id
MutateNoAuthCheck(i, kind, arg) ==
    /\ view = "bookings"
    /\ inv[i].pc \in {"idle", "done"}
    /\ \A j \in 1..(i - 1) : inv[j].pc \notin {"idle", "done"}
    /\ inv' = [inv EXCEPT ![i] =
                 [IdleInv EXCEPT !.kind = kind, !.arg = arg, !.caller = user,
                                 !.pc = "fetch"]]
    /\ UNCHANGED <<view, user, now, booking, favVars>>

\* mutate(): the mutationFn up to its first await; a new invocation takes the
\* lowest free slot (the slots only name the invocations)
Mutate(i, kind, arg) ==
    /\ view = "bookings"
    /\ inv[i].pc \in {"idle", "done"}
    /\ \A j \in 1..(i - 1) : inv[j].pc \notin {"idle", "done"}
    /\ LET r == [IdleInv EXCEPT !.kind = kind, !.arg = arg, !.caller = user]
       IN  inv' = [inv EXCEPT ![i] =
                     IF user = NoUser
                     THEN Failed(r, MsgNotAuthenticated)
                     ELSE [r EXCEPT !.pc = "fetch"]]
    /\ UNCHANGED <<view, user, now, booking, favVars>>

acceptBooking(i, notes) == Mutate(i, "accept", notes)
markInProgress(i, notes) == Mutate(i, "start", notes)
completeBooking(i, notes) == Mutate(i, "complete", notes)
cancelBooking(i, reason) == Mutate(i, "cancel", reason)

\* mutant: the status check runs before the authorization check
FetchReturnsStatusFirst(i) ==
    /\ inv[i].pc = "fetch"
    /\ \E fetchError \in BOOLEAN :
         LET r == inv[i] IN
         inv' = [inv EXCEPT ![i] =
            IF fetchError
            THEN Failed(r, MsgFetchFailed)
            ELSE IF ~Precondition(r.kind, booking.status)
            THEN Failed(r, InvalidTransitionMsg(r.kind))
            ELSE IF booking.provider_user_id # r.caller
            THEN Failed(r, AuthorizationMsg(r.kind))
            ELSE [r EXCEPT !.pc = "update", !.snap = booking,
                           !.patch = Payload(r.kind, r.arg, now)]]
    /\ UNCHANGED <<view, user, now, booking, favVars>>

\* mutant: a transition is refused while another invocation of the same
\* transition has its update in flight
FetchReturnsExclusive(i) ==
    /\ inv[i].pc = "fetch"
    /\ \E fetchError \in BOOLEAN :
         LET r == inv[i] IN
         inv' = [inv EXCEPT ![i] =
            IF fetchError
            THEN Failed(r, MsgFetchFailed)
            ELSE IF booking.provider_user_id # r.caller
            THEN Failed(r, AuthorizationMsg(r.kind))
            ELSE IF \/ ~Precondition(r.kind, booking.status)
                    \/ \E j \in Inv \ {i} :
                          inv[j].pc = "update" /\ inv[j].kind = r.kind
            THEN Failed(r, InvalidTransitionMsg(r.kind))
            ELSE [r EXCEPT !.pc = "update", !.snap = booking,
                           !.patch = Payload(r.kind, r.arg, now)]]
    /\ UNCHANGED <<view, user, now, booking, favVars>>

\* the select ... single() returns: the authorization and status checks run on
\* the fetched row and the update is issued
FetchReturns(i) ==
    /\ inv[i].pc = "fetch"
    /\ \E fetchError \in BOOLEAN :
         LET r == inv[i] IN
         inv' = [inv EXCEPT ![i] =
            IF fetchError
            THEN Failed(r, MsgFetchFailed)
            ELSE IF booking.provider_user_id # r.caller
            THEN Failed(r, AuthorizationMsg(r.kind))
            ELSE IF ~Precondition(r.kind, booking.status)
            THEN Failed(r, InvalidTransitionMsg(r.kind))
            ELSE [r EXCEPT !.pc = "update", !.snap = booking,
                           !.patch = Payload(r.kind, r.arg, now)]]
    /\ UNCHANGED <<view, user, now, booking, favVars>>

\* the update returns: the store applied it, or reports an error
UpdateReturns(i) ==
    /\ inv[i].pc = "update"
    /\ \/ /\ booking' = ApplyUpdate(booking, inv[i].patch)
          /\ inv' = [inv EXCEPT ![i] = Succeeded(inv[i])]
       \/ /\ \E msg \in RemoteErrors :
                inv' = [inv EXCEPT ![i] = Failed(inv[i], msg)]
          /\ UNCHANGED booking
    /\ UNCHANGED <<view, user, now, favVars>>

----------------------------------------------------------------------------
(* useFavorites *)

\* loadFavorites() as the closure of user id u runs it, up to its await:
\* the new local list, loading flag and calls in flight
LoadList(u) == IF u = NoUser THEN SetState(favorites, <<>>) ELSE favorites
LoadFlag(u) == IF u = NoUser THEN loading ELSE SetState(loading, TRUE)
LoadCalls(u) == IF u = NoUser THEN calls ELSE Put(calls, Call("load", u, Null))

\* room for one more call in flight
Room == BagCardinality(calls) < MaxCalls

\* the effect: loadFavorites(), then the subscription of user id u
Effect(u, open) ==
    /\ u # NoUser => Room
    /\ favorites' = LoadList(u)
    /\ loading' = LoadFlag(u)
    /\ calls' = LoadCalls(u)
    /\ channels' = IF u = NoUser THEN open ELSE open \cup {u}

\* mutant: the effect returns no cleanup
CleanupForgets(u) == channels

\* the effect's cleanup, as the closure of user id u: removeChannel(channel)
Cleanup(u) == channels \ {u}
Dropped(u) == [c \in Users |-> IF c = u THEN 0 ELSE events[c]]

\* the component mounts: the effect runs for the first time
Mount ==
    /\ view = "favorites"
    /\ mounted = "no"
    /\ mounted' = "yes"
    /\ Effect(user, channels)
    /\ UNCHANGED <<view, user, bookVars, remote, events, returned>>

\* the component is torn down: the cleanup runs
Unmount ==
    /\ view = "favorites"
    /\ mounted = "yes"
    /\ mounted' = "gone"
    /\ channels' = Cleanup(user)
    /\ events' = Dropped(user)
    /\ UNCHANGED <<view, user, bookVars, favorites, loading, remote, calls, returned>>

\* the auth provider reports another user (or none); a mounted useFavorites
\* re-renders: the cleanup of the old effect runs, then the effect
AuthChange(u) ==
    /\ u # user
    /\ user' = u
    /\ IF view = "favorites" /\ mounted = "yes"
       THEN /\ Effect(u, Cleanup(user))
            /\ events' = Dropped(user)
            /\ UNCHANGED <<mounted, remote, returned>>
       ELSE UNCHANGED favVars
    /\ UNCHANGED <<view, bookVars>>

\* refetch(): loadFavorites called by the consumer
Refetch ==
    /\ view = "favorites"
    /\ mounted = "yes"
    /\ user # NoUser => Room
    /\ favorites' = LoadList(user)
    /\ loading' = LoadFlag(user)
    /\ calls' = LoadCalls(user)
    /\ UNCHANGED <<view, user, bookVars, mounted, remote, channels, events, returned>>

\* mutant: an event delivered while a load is in flight starts no second load
ChangeEventCoalesced(c) ==
    /\ view = "favorites"
    /\ c \in channels
    /\ events[c] > 0
    /\ Room
    /\ events' = [events EXCEPT ![c] = @ - 1]
    /\ IF \E r \in BagToSet(calls) : r.op = "load"
       THEN UNCHANGED <<favorites, loading, calls>>
       ELSE /\ favorites' = LoadList(c)
            /\ loading' = LoadFlag(c)
            /\ calls' = LoadCalls(c)
    /\ UNCHANGED <<view, user, bookVars, mounted, remote, channels, returned>>

\* a change event is delivered on the channel of user id c: its callback
\* calls the loadFavorites of the effect that opened the channel
ChangeEvent(c) ==
    /\ view = "favorites"
    /\ c \in channels
    /\ events[c] > 0
    /\ Room
    /\ events' = [events EXCEPT ![c] = @ - 1]
    /\ favorites' = LoadList(c)
    /\ loading' = LoadFlag(c)
    /\ calls' = LoadCalls(c)
    /\ UNCHANGED <<view, user, bookVars, mounted, remote, channels, returned>>

\* mutant: the insert is issued without looking for the provider in the list
addToFavoritesNoDuplicateCheck(p) ==
    /\ view = "favorites"
    /\ mounted = "yes"
    /\ IF user = NoUser
       THEN /\ returned' = Returned("add", "false", <<ToastAuthRequired>>)
            /\ UNCHANGED calls
       ELSE /\ Room
            /\ calls' = Put(calls, Call("add", user, p))
            /\ UNCHANGED returned
    /\ UNCHANGED <<view, user, bookVars, mounted, favorites, loading, remote,
                   channels, events>>

\* addToFavorites(p) up to its await
addToFavorites(p) ==
    /\ view = "favorites"
    /\ mounted = "yes"
    /\ IF user = NoUser
       THEN /\ returned' = Returned("add", "false", <<ToastAuthRequired>>)
            /\ UNCHANGED calls
       ELSE IF Contains(favorites, p)
       THEN /\ returned' = Returned("add", "false", <<ToastAlready>>)
            /\ UNCHANGED calls
       ELSE /\ Room
            /\ calls' = Put(calls, Call("add", user, p))
            /\ UNCHANGED returned
    /\ UNCHANGED <<view, user, bookVars, mounted, favorites, loading, remote,
                   channels, events>>

\* removeFromFavorites(p) up to its await
removeFromFavorites(p) ==
    /\ view = "favorites"
    /\ mounted = "yes"
    /\ IF user = NoUser
       THEN /\ returned' = Returned("remove", "false", <<>>)
            /\ UNCHANGED calls
       ELSE /\ Room
            /\ calls' = Put(calls, Call("remove", user, p))
            /\ UNCHANGED returned
    /\ UNCHANGED <<view, user, bookVars, mounted, favorites, loading, remote,
                   channels, events>>

\* the table after the store serves call r
Served(r) ==
    CASE r.op = "load"   -> remote
      [] r.op = "add"    -> remote \cup {Row(r.uid, r.arg)}
      [] r.op = "remove" -> remote \ {Row(r.uid, r.arg)}

\* the data the store answers call r with
Data(r) ==
    CASE r.op = "load"   -> SelectFavorites(remote, r.uid)
      [] r.op = "add"    -> <<Row(r.uid, r.arg)>>
      [] r.op = "remove" -> <<>>

\* the store serves the request of a call r in flight: it answers a select,
\* applies an insert or a delete (a change of the table is pushed to the open
\* channel whose filter matches), or fails; the table holds one row per
\* (customer, provider), so a second insert of a pair is refused
RemoteServes(r) ==
    /\ view = "favorites"
    /\ BagIn(r, calls)
    /\ r.pc = "request"
    /\ \E answer \in Answers(r.op) :
         /\ answer = "ok" => ~(r.op = "add" /\ Row(r.uid, r.arg) \in remote)
         /\ remote' = IF answer = "ok" THEN Served(r) ELSE remote
         /\ IF remote' # remote /\ r.uid \in channels
            THEN /\ events[r.uid] < MaxEvents
                 /\ events' = [events EXCEPT ![r.uid] = @ + 1]
            ELSE UNCHANGED events
         /\ calls' = Put(Take(calls, r),
                        [r EXCEPT !.pc = "response", !.answer = answer,
                                  !.data = IF answer = "ok" THEN Data(r) ELSE <<>>])
    /\ UNCHANGED <<view, user, bookVars, mounted, favorites, loading, channels,
                   returned>>

\* mutant: the fetched rows are appended to the list instead of replacing it
LoadReturnsMerges(r) ==
    /\ view = "favorites"
    /\ BagIn(r, calls)
    /\ r.op = "load"
    /\ r.pc = "response"
    /\ favorites' = IF r.answer = "ok" THEN SetState(favorites, favorites \o r.data)
                    ELSE favorites
    /\ loading' = SetState(loading, FALSE)
    /\ returned' = Returned("load", "void",
                           CASE r.answer = "ok"    -> <<>>
                             [] r.answer = "error" -> <<ToastLoadError>>
                             [] r.answer = "throw" -> <<ToastLoadThrown>>)
    /\ calls' = Take(calls, r)
    /\ UNCHANGED <<view, user, bookVars, mounted, remote, channels, events>>

\* loadFavorites resumes after its await
LoadReturns(r) ==
    /\ view = "favorites"
    /\ BagIn(r, calls)
    /\ r.op = "load"
    /\ r.pc = "response"
    /\ favorites' = IF r.answer = "ok" THEN SetState(favorites, r.data)
                    ELSE favorites
    /\ loading' = SetState(loading, FALSE)
    /\ returned' = Returned("load", "void",
                           CASE r.answer = "ok"    -> <<>>
                             [] r.answer = "error" -> <<ToastLoadError>>
                             [] r.answer = "throw" -> <<ToastLoadThrown>>)
    /\ calls' = Take(calls, r)
    /\ UNCHANGED <<view, user, bookVars, mounted, remote, channels, events>>

\* addToFavorites resumes after its await
AddReturns(r) ==
    /\ view = "favorites"
    /\ BagIn(r, calls)
    /\ r.op = "add"
    /\ r.pc = "response"
    /\ IF r.answer = "ok"
         THEN /\ favorites' = SetState(favorites, favorites \o r.data)
              /\ returned' = Returned("add", "true", <<ToastAdded>>)
         ELSE /\ returned' = Returned("add", "false", <<ToastAddError>>)
              /\ UNCHANGED favorites
    /\ calls' = Take(calls, r)
    /\ UNCHANGED <<view, user, bookVars, mounted, loading, remote, channels, events>>

\* mutant: the filter keeps the entries of the provider instead of dropping them
RemoveReturnsKeeps(r) ==
    /\ view = "favorites"
    /\ BagIn(r, calls)
    /\ r.op = "remove"
    /\ r.pc = "response"
    /\ IF r.answer = "ok"
         THEN /\ favorites' = SetState(favorites,
                     SelectSeq(favorites, LAMBDA f : f.provider_user_id = r.arg))
              /\ returned' = Returned("remove", "true", <<ToastRemoved>>)
         ELSE /\ returned' = Returned("remove", "false", <<ToastRemoveError>>)
              /\ UNCHANGED favorites
    /\ calls' = Take(calls, r)
    /\ UNCHANGED <<view, user, bookVars, mounted, loading, remote, channels, events>>

\* removeFromFavorites resumes after its await
RemoveReturns(r) ==
    /\ view = "favorites"
    /\ BagIn(r, calls)
    /\ r.op = "remove"
    /\ r.pc = "response"
    /\ IF r.answer = "ok"
         THEN /\ favorites' = SetState(favorites, Without(favorites, r.arg))
              /\ returned' = Returned("remove", "true", <<ToastRemoved>>)
         ELSE /\ returned' = Returned("remove", "false", <<ToastRemoveError>>)
              /\ UNCHANGED favorites
    /\ calls' = Take(calls, r)
    /\ UNCHANGED <<view, user, bookVars, mounted, loading, remote, channels, events>>

----------------------------------------------------------------------------
Next ==
    \/ \E u \in Users \cup {NoUser} : AuthChange(u)
    \/ Tick
    \/ \E i \in Inv, notes \in NotesArgs : acceptBooking(i, notes)
    \/ \E i \in Inv, notes \in NotesArgs : markInProgress(i, notes)
    \/ \E i \in Inv, notes \in NotesArgs : completeBooking(i, notes)
    \/ \E i \in Inv, reason \in ReasonArgs : cancelBooking(i, reason)
    \/ \E i \in Inv : FetchReturns(i)
    \/ \E i \in Inv : UpdateReturns(i)
    \/ Mount
    \/ Unmount
    \/ Refetch
    \/ \E c \in Users : ChangeEvent(c)
    \/ \E p \in Providers : addToFavorites(p)
    \/ \E p \in Providers : removeFromFavorites(p)
    \/ \E r \in BagToSet(calls) : RemoteServes(r)
    \/ \E r \in BagToSet(calls) : LoadReturns(r)
    \/ \E r \in BagToSet(calls) : AddReturns(r)
    \/ \E r \in BagToSet(calls) : RemoveReturns(r)

Spec == Init /\ [][Next]_vars

----------------------------------------------------------------------------
(* Properties of the booking transitions *)

\* the step is one of invocation i: its mutate() call, the return of its
\* fetch, the return of its update
Invokes(i) == inv[i].pc \in {"idle", "done"} /\ inv'[i] # inv[i]
FetchStep(i) == inv[i].pc = "fetch" /\ inv'[i] # inv[i]
UpdateStep(i) == inv[i].pc = "update" /\ inv'[i] # inv[i]

IsProvider(u) == u = booking.provider_user_id

\* the statuses in the order of the workflow
Forward ==
    {<<"pending", "accepted">>, <<"accepted", "in_progress">>,
     <<"in_progress", "completed">>, <<"pending", "cancelled">>,
     <<"accepted", "cancelled">>, <<"in_progress", "cancelled">>}

\* C1: the status of the booking only moves forward along pending -> accepted
\* -> in_progress -> completed or to cancelled, and a completed or cancelled
\* booking never changes status again, whatever invocations interleave.
C1_StatusMonotonic ==
    [][booking'.status # booking.status
         => <<booking.status, booking'.status>> \in Forward]_vars

\* C2: an accept that runs with nothing interleaved (the row is still the one
\* it fetched when its update returns) succeeds, making the status accepted,
\* only from status pending with the caller the booking's provider-user; in
\* every other combination it fails, and a failed accept changes no field.
C2_AcceptOnlyPendingByProvider ==
    [][\A i \in Inv :
         /\ (FetchStep(i) /\ inv[i].kind = "accept") =>
               /\ booking' = booking
               /\ inv'[i].pc = "update" =>
                     booking.status = "pending" /\ IsProvider(inv[i].caller)
               /\ ~(booking.status = "pending" /\ IsProvider(inv[i].caller)) =>
                     inv'[i].outcome = "error"
         /\ (UpdateStep(i) /\ inv[i].kind = "accept" /\ inv[i].snap = booking) =>
               IF inv'[i].outcome = "success"
               THEN /\ booking.status = "pending"
                    /\ IsProvider(inv[i].caller)
                    /\ booking'.status = "accepted"
               ELSE /\ inv'[i].outcome = "error"
                    /\ booking' = booking
         /\ (Invokes(i) /\ inv'[i].kind = "accept" /\ inv'[i].outcome = "error") =>
               booking' = booking]_vars

\* an accept by the provider succeeded on the pending booking
C2_Witness ==
    \E i \in Inv :
        /\ inv[i].kind = "accept"
        /\ inv[i].outcome = "success"
        /\ booking.status = "accepted"
        /\ booking.accepted_at # NoTime

\* C3: a cancel by the booking's provider-user goes through from pending,
\* accepted and in_progress (its update is issued and, once the store applied
\* it, the status is cancelled); from cancelled and completed it fails with
\* 'This booking cannot be cancelled' and the row is unchanged.  The only
\* other failures are those of the store (fetch or update error).
C3_CancelByProvider ==
    [][\A i \in Inv :
         /\ (FetchStep(i) /\ inv[i].kind = "cancel" /\ IsProvider(inv[i].caller)
               /\ inv'[i].message # MsgFetchFailed) =>
               /\ booking' = booking
               /\ IF booking.status \in {"pending", "accepted", "in_progress"}
                  THEN /\ inv'[i].pc = "update"
                       /\ inv'[i].patch.status = "cancelled"
                  ELSE /\ inv'[i].outcome = "error"
                       /\ inv'[i].message = "This booking cannot be cancelled"
         /\ (UpdateStep(i) /\ inv[i].kind = "cancel") =>
               \/ inv'[i].outcome = "success" /\ booking'.status = "cancelled"
               \/ /\ inv'[i].outcome = "error"
                  /\ inv'[i].message \in RemoteErrors
                  /\ booking' = booking]_vars

\* one cancel succeeded on a booking that was in progress, and a second one
\* was then refused
C3_Witness ==
    \E i, j \in Inv :
        /\ inv[i].kind = "cancel" /\ inv[i].outcome = "success"
        /\ booking.status = "cancelled" /\ booking.started_at # NoTime
        /\ inv[j].kind = "cancel" /\ inv[j].outcome = "error"
        /\ inv[j].message = "This booking cannot be cancelled"

\* the status each of start and complete requires
Required(kind) == IF kind = "start" THEN "accepted" ELSE "in_progress"

\* C4 as stated: start issues its update only from fetched status accepted and
\* complete only from in_progress; for every other fetched status each fails
\* with the invalid-transition error and issues no update.
C4_Original ==
    [][\A i \in Inv :
         (FetchStep(i) /\ inv[i].kind \in {"start", "complete"}
            /\ inv'[i].message # MsgFetchFailed) =>
            /\ inv'[i].pc = "update" => booking.status = Required(inv[i].kind)
            /\ booking.status # Required(inv[i].kind) =>
                  /\ inv'[i].pc = "done"
                  /\ inv'[i].outcome = "error"
                  /\ inv'[i].message = InvalidTransitionMsg(inv[i].kind)]_vars

\* C4 amended: start issues its update only from fetched status accepted and
\* complete only from in_progress; for every other fetched status each fails
\* and issues no update, with the invalid-transition error when the caller is
\* the booking's provider-user and with the authorization error otherwise.
C4_StartCompleteGuard ==
    [][\A i \in Inv :
         (FetchStep(i) /\ inv[i].kind \in {"start", "complete"}
            /\ inv'[i].message # MsgFetchFailed) =>
            /\ booking' = booking
            /\ inv'[i].pc = "update" => booking.status = Required(inv[i].kind)
            /\ booking.status # Required(inv[i].kind) =>
                  /\ inv'[i].pc = "done"
                  /\ inv'[i].outcome = "error"
                  /\ inv'[i].patch = NoPatch
                  /\ inv'[i].message =
                        IF IsProvider(inv[i].caller)
                        THEN InvalidTransitionMsg(inv[i].kind)
                        ELSE AuthorizationMsg(inv[i].kind)]_vars

\* a complete by the provider was refused on a booking that is not in progress
C4_Witness ==
    \E i \in Inv :
        /\ inv[i].kind = "complete"
        /\ inv[i].outcome = "error"
        /\ inv[i].message = "This booking cannot be completed"
        /\ booking.status = "accepted"

\* the field set of each transition (spec 4.2)
Target(kind) ==
    CASE kind = "accept"   -> "accepted"
      [] kind = "start"    -> "in_progress"
      [] kind = "complete" -> "completed"
      [] kind = "cancel"   -> "cancelled"
TextField(kind) == IF kind = "cancel" THEN "cancellation_reason" ELSE "provider_notes"
TimeField(kind) ==
    CASE kind = "accept"   -> "accepted_at"
      [] kind = "start"    -> "started_at"
      [] kind = "complete" -> "completed_at"
      [] kind = "cancel"   -> "cancelled_at"
FieldSet(kind) == {"status", TextField(kind), TimeField(kind)}

C6_AuthorizationFirst ==
    [][\A i \in Inv :
         /\ (Invokes(i) /\ user = NoUser) =>
               inv'[i].pc = "done" /\ inv'[i].message = MsgNotAuthenticated
         /\ (FetchStep(i) /\ ~IsProvider(inv[i].caller)) =>
               /\ inv'[i].pc = "done"
               /\ inv'[i].outcome = "error"
               /\ inv'[i].message \in {MsgFetchFailed, AuthorizationMsg(inv[i].kind)}
               /\ booking' = booking]_vars

\* a caller other than the provider got the authorization error for a cancel of
\* a completed booking, which the status check would have refused as well
C6_Witness ==
    \E i \in Inv :
        /\ inv[i].kind = "cancel"
        /\ inv[i].outcome = "error"
        /\ inv[i].message = "You are not authorized to cancel this booking"
        /\ booking.status = "completed"

\* C7: with no authenticated user, each of the four transitions and both
\* addToFavorites and removeFromFavorites fail at once: no request is issued,
\* and the remote store and the local favorites list are unchanged.
C7_NoUserNoRequest ==
    [][user = NoUser =>
         /\ \A i \in Inv : Invokes(i) =>
               /\ inv'[i].pc = "done"
               /\ inv'[i].outcome = "error"
               /\ inv'[i].message = MsgNotAuthenticated
               /\ booking' = booking
         /\ \A p \in Providers :
               (addToFavorites(p) \/ removeFromFavorites(p)) =>
                  /\ returned'.value = "false"
                  /\ calls' = calls
                  /\ remote' = remote
                  /\ favorites' = favorites]_vars

\* a removeFromFavorites returned false with no user, nothing in flight
C7_Witness ==
    /\ user = NoUser
    /\ mounted = "yes"
    /\ returned.op = "remove"
    /\ returned.value = "false"
    /\ calls = EmptyBag

\* C8: a finished invocation has emitted exactly one toast: after a success
\* the default toast of its transition, with both booking-list keys
\* invalidated; after a failure the destructive toast carrying the message of
\* the failure, with nothing invalidated.  An unfinished one has emitted none.
C8_OneNotification ==
    \A i \in Inv :
        LET r == inv[i] IN
        /\ r.pc # "done" => r.toasts = <<>> /\ r.invalidated = {}
        /\ r.pc = "done" =>
              /\ Len(r.toasts) = 1
              /\ r.outcome \in {"success", "error"}
              /\ r.outcome = "success" =>
                    /\ r.toasts[1].variant = "default"
                    /\ r.toasts[1].title = SuccessTitle(r.kind)
                    /\ r.invalidated = {"bookings", "provider-bookings"}
              /\ r.outcome = "error" =>
                    /\ r.toasts[1].variant = "destructive"
                    /\ r.toasts[1].description = r.message
                    /\ r.message # ""
                    /\ r.invalidated = {}

\* one invocation ended in success and another in an invalid-transition error
C8_Witness ==
    \E i, j \in Inv :
        /\ inv[i].pc = "done" /\ inv[i].outcome = "success"
        /\ inv[j].pc = "done" /\ inv[j].outcome = "error"
        /\ inv[j].message = InvalidTransitionMsg(inv[j].kind)

\* C9: concurrent accepts are not mutually excluded: while one accept of the
\* provider has its update in flight, the fetch of another accept of the
\* provider that still reads pending is let through to its own update, and an
\* update in flight is applied whatever the other invocation did.
C9_NotExcluded ==
    [][\A i, j \in Inv :
         /\ (i # j /\ FetchStep(j) /\ inv[j].kind = "accept"
               /\ inv[i].kind = "accept" /\ inv[i].pc = "update"
               /\ IsProvider(inv[j].caller) /\ booking.status = "pending"
               /\ inv'[j].message # MsgFetchFailed) =>
               inv'[j].pc = "update"
         /\ (i # j /\ UpdateStep(j) /\ inv[j].kind = "accept"
               /\ inv[i].kind = "accept" /\ inv[i].outcome = "success"
               /\ inv'[j].message \notin RemoteErrors) =>
               inv'[j].outcome = "success"]_vars

\* two accepts of the one booking both reported success
C9_BothAcceptsSucceed ==
    /\ inv[1].kind = "accept" /\ inv[1].outcome = "success"
    /\ inv[2].kind = "accept" /\ inv[2].outcome = "success"
    /\ booking.status = "accepted"

----------------------------------------------------------------------------
(* Properties of the favorites *)

\* C10: while the component is mounted, isFavorite(p) is true right after an
\* addToFavorites(p) that returned true and false right after a
\* removeFromFavorites(p) that returned true, whatever else is in flight.
C10_IsFavoriteAfterAddRemove ==
    [][\A r \in BagToSet(calls) :
         /\ (AddReturns(r) /\ mounted = "yes" /\ returned'.value = "true") =>
               Contains(favorites', r.arg)
         /\ (RemoveReturns(r) /\ mounted = "yes" /\ returned'.value = "true") =>
               ~Contains(favorites', r.arg)]_vars

\* an addToFavorites returned true while a load was still in flight
C10_Witness ==
    /\ mounted = "yes"
    /\ returned.op = "add" /\ returned.value = "true"
    /\ isFavorite("p1")
    /\ \E r \in BagToSet(calls) : r.op = "load" /\ r.pc = "response"

\* C11: an addToFavorites(p) called while the local list holds an entry of
\* provider p returns false and issues no insert; the local list and the
\* remote table are unchanged.
C11_AddPresentRefused ==
    [][\A p \in Providers :
         (addToFavorites(p) /\ Contains(favorites, p)) =>
            /\ returned'.op = "add"
            /\ returned'.value = "false"
            /\ calls' = calls
            /\ favorites' = favorites
            /\ remote' = remote]_vars

\* an addToFavorites of a provider in the list was refused as a duplicate
C11_Witness ==
    /\ user # NoUser
    /\ isFavorite("p1")
    /\ returned = Returned("add", "false", <<ToastAlready>>)
    /\ Row(user, "p1") \in remote

\* C12: the local list holds at most one entry per provider_user_id in every
\* reachable state (the remote table holds one row per pair), whatever adds
\* and reloads interleave.
C12_UniquePerProvider ==
    \A k1, k2 \in DOMAIN favorites :
        favorites[k1].provider_user_id = favorites[k2].provider_user_id => k1 = k2

\* C13: a load whose query fails (returned error or rejected promise) emits an
\* error toast and leaves the local list as it was; a load without a user
\* empties the local list and issues no query; a successful load replaces the
\* whole local list by the rows fetched.
C13_LoadOutcomes ==
    [][/\ \A r \in BagToSet(calls) :
            LoadReturns(r) =>
               IF r.answer = "ok"
               THEN /\ mounted = "yes" => favorites' = r.data
                    /\ returned'.toasts = <<>>
               ELSE /\ favorites' = favorites
                    /\ Len(returned'.toasts) = 1
                    /\ returned'.toasts[1].variant = "destructive"
       /\ ((Mount \/ Refetch) /\ user = NoUser) =>
            favorites' = <<>> /\ calls' = calls /\ remote' = remote
       /\ (AuthChange(NoUser) /\ mounted = "yes") =>
            favorites' = <<>> /\ calls' = calls /\ remote' = remote]_vars

\* a load failed and the list it found is still there
C13_Witness ==
    /\ mounted = "yes"
    /\ returned = Returned("load", "void", <<ToastLoadError>>)
    /\ favorites = <<Row("u1", "p1")>>

\* the loads in flight
Loads == {r \in BagToSet(calls) : r.op = "load"}
\* the number of calls in flight that are loads of user id c
LoadsOf(bag, c) ==
    CopiesIn(Call("load", c, Null), bag)
      + BagCardinality([r \in {x \in BagToSet(bag) :
                                 x.op = "load" /\ x.uid = c /\ x.pc = "response"}
                          |-> bag[r]])

\* at most one channel is open, its filter is the current user, and none is
\* open without a user or while the component is not mounted
OneChannel ==
    /\ Cardinality(channels) <= 1
    /\ channels \subseteq {user} \ {NoUser}
    /\ mounted # "yes" => channels = {}
    /\ (mounted = "yes" /\ user # NoUser) => channels = {user}

\* C14: in every state at most one push subscription is open, it is filtered
\* to the current user's id, and none is open without a user or after
\* teardown; every change of user under a mounted component closes the old
\* subscription in the same step and starts a load for the new user.
C14_OneSubscription ==
    /\ []OneChannel
    /\ [][\A u \in Users :
            (AuthChange(u) /\ mounted = "yes") =>
               /\ user \notin channels'
               /\ LoadsOf(calls', u) = LoadsOf(calls, u) + 1]_vars

\* the user changed from u1 to u2 while a load of u1 was in flight: the only
\* channel open is the one of u2
C14_Witness ==
    /\ mounted = "yes"
    /\ user = "u2"
    /\ channels = {"u2"}
    /\ LoadsOf(calls, "u1") = 1
    /\ LoadsOf(calls, "u2") = 1

\* C15: every change event delivered on the open channel starts one load of
\* its own, also while earlier loads are in flight: nothing is coalesced.
C15_OneLoadPerEvent ==
    [][\A c \in Users :
         ChangeEvent(c) =>
            /\ LoadsOf(calls', c) = LoadsOf(calls, c) + 1
            /\ BagCardinality(calls') = BagCardinality(calls) + 1
            /\ events'[c] = events[c] - 1]_vars

\* an event was delivered while a load was in flight: two loads of the user
\* are in flight, neither served yet
C15_Witness ==
    /\ mounted = "yes"
    /\ user = "u1"
    /\ CopiesIn(Call("load", "u1", Null), calls) = 2
    /\ returned.op \in {"add", "remove"}
    /\ returned.value = "true"

\* C16: every failed favorites operation, the missing-authentication case
\* included, returns normally (false for add and remove) and has emitted an
\* error toast.
C16_FailureNotified ==
    (returned.op \in {"add", "remove"} /\ returned.value = "false") =>
        Len(returned.toasts) >= 1

\* C17: in every state every entry of the local list belongs to the current
\* user, and the list is empty when no user is authenticated, also when a
\* load or add started under a previous user completes after the change.
C17_OwnEntriesOnly ==
    /\ \A k \in DOMAIN favorites : favorites[k].customer_id = user
    /\ user = NoUser => favorites = <<>>

\* the providers of a list of rows, and those the table holds for customer c
ProvidersOf(list) == {list[k].provider_user_id : k \in DOMAIN list}
RemoteProviders(c) == {p \in Providers : Row(c, p) \in remote}
\* nothing is in flight and no change event waits for delivery
Quiescent ==
    /\ calls = EmptyBag
    /\ \A c \in Users : events[c] = 0

\* C18: once the table has stopped changing and every load, add and remove
\* in flight has completed, the providers of the local list are those the
\* table holds for the current user, whatever the order of the responses.
C18_ConvergesToRemote ==
    (mounted = "yes" /\ user # NoUser /\ Quiescent) =>
        ProvidersOf(favorites) = RemoteProviders(user)

\* C19: the loading flag is true exactly when a load is in flight, also when
\* several loads overlap.
C19_LoadingIffLoadInFlight ==
    mounted = "yes" => (loading <=> Loads # {})

\* C20: the status of the booking implies that the timestamps of the
\* transitions leading to it are set.
C20_TimestampsOfStatus ==
    /\ booking.status = "accepted" => booking.accepted_at # NoTime
    /\ booking.status = "in_progress" =>
          booking.accepted_at # NoTime /\ booking.started_at # NoTime
    /\ booking.status = "completed" =>
          /\ booking.accepted_at # NoTime
          /\ booking.started_at # NoTime
          /\ booking.completed_at # NoTime
    /\ booking.status = "cancelled" => booking.cancelled_at # NoTime

\* a cancellation raced with the booking's progress: the booking is completed,
\* carries all three timestamps of its way there and that of the cancellation
C20_Witness ==
    /\ booking.status = "completed"
    /\ booking.accepted_at # NoTime
    /\ booking.started_at # NoTime
    /\ booking.completed_at # NoTime
    /\ booking.cancelled_at # NoTime

====
